---------------------------- MODULE Spec2Model ----------------------------
(***************************************************************************)
(* Task dependency and lifecycle engine of the todo-app:                  *)
(*   ToDo            (src/todo_type.py)                                   *)
(*   ToDoManager     (src/core/todo_manager.py)                           *)
(*   AutomaticToDo   (src/core/automatic_todo.py)                         *)
(*   Date            (src/date_type.py)                                   *)
(*                                                                         *)
(* A ToDo object is a record in the heap `tasks`, addressed by its id.    *)
(* Date delegates all arithmetic and ordering to datetime.date, so a Date *)
(* is modelled by its day number.  An Optional value is the empty         *)
(* sequence (None) or a one-element sequence.                             *)
(***************************************************************************)
EXTENDS Integers, Sequences, FiniteSets, TLC

VARIABLES tasks, todos, bp, last, pre

vars == <<tasks, todos, bp, last, pre>>

(* ------------------------------ bounds -------------------------------- *)

\* ToDo objects constructed by the caller before any operation
NumTasks == 3

\* number of ToDo / manager operations in one behaviour
MaxOps == 6

\* number of generator / manager calls in one behaviour with a blueprint
MaxCalls == 4

\* the latest day offered as `today` to generate_due_tasks
MaxDay == 5

\* the largest interval_days and start_date of a blueprint
MaxInterval == 3

MaxStart == 1

\* the most template subtasks of a blueprint
MaxSubtasks == 1

Ids == 1 .. NumTasks

None == << >>

Some(v) == << v >>

\* actual_time arguments offered to mark_done
ActualTimes == {None, Some(1)}

\* the value of Date.today() while the manager operations run
Today == 0

(* --------------------------- list helpers ----------------------------- *)

\* Python `x in list`
InSeq(x, s) == \E i \in 1 .. Len(s) : s[i] = x

Range(s) == {s[i] : i \in 1 .. Len(s)}

RECURSIVE IndexOf(_, _, _)
IndexOf(x, s, i) ==
    IF i > Len(s) THEN 0
    ELSE IF s[i] = x THEN i
    ELSE IndexOf(x, s, i + 1)

\* Python list.remove(x): drops the first occurrence (x is known to occur)
ListRemove(s, x) ==
    LET i == IndexOf(x, s, 1)
    IN  IF i = 0 THEN s
        ELSE SubSeq(s, 1, i - 1) \o SubSeq(s, i + 1, Len(s))

(* ----------------------------- Priority ------------------------------- *)

\* Priority.ALLOWED_PRIORITIES: the level of "blocking", the highest priority,
\* and of "parked", the lowest
Priority_blocking == 1

Priority_parked == 7

\* Priority.name of a level, and Priority(name).level
Priority_name(level) == << "priority", level >>

Priority_level(name) == name[2]

\* Priority.__sub__ with an int: the new level, or ValueError above the
\* highest priority
Priority_sub(level, value) ==
    IF level - value < Priority_blocking
    THEN [err |-> "ValueError", level |-> level]
    ELSE [err |-> "ok", level |-> level - value]

(* ------------------------------- ToDo --------------------------------- *)

\* ToDo.__init__ with the defaults of the arguments not listed; deadline is
\* None (defaulting to tomorrow) or a date
ToDo_init(title, is_project, deadline) ==
    [ title         |-> title,
      deadline      |-> IF deadline = None THEN Today + 1 ELSE deadline[1],
      is_project    |-> is_project,
      priority      |-> Priority_parked,
      done          |-> FALSE,
      in_progress   |-> FALSE,
      completed_at  |-> None,
      actual_time   |-> None,
      dependencies  |-> << >>,
      dependancy_of |-> << >> ]

\* ToDo.is_unblocked
ToDo_is_unblocked(h, t) ==
    \A i \in 1 .. Len(h[t].dependencies) : h[h[t].dependencies[i]].done

\* mark_done without the is_unblocked gate
mark_done_ungated(h, t, actual_time) ==
    IF ~h[t].done
    THEN [h EXCEPT ![t].done = TRUE,
                   ![t].completed_at = Some(Today),
                   ![t].actual_time = actual_time,
                   ![t].in_progress = FALSE]
    ELSE h

\* mark_done without the reset of in_progress
mark_done_keeping_in_progress(h, t, actual_time) ==
    IF ~h[t].done /\ ToDo_is_unblocked(h, t)
    THEN [h EXCEPT ![t].done = TRUE,
                   ![t].completed_at = Some(Today),
                   ![t].actual_time = actual_time]
    ELSE h

\* ToDo.mark_done
ToDo_mark_done(h, t, actual_time) ==
    IF ~h[t].done /\ ToDo_is_unblocked(h, t)
    THEN [h EXCEPT ![t].done = TRUE,
                   ![t].completed_at = Some(Today),
                   ![t].actual_time = actual_time,
                   ![t].in_progress = FALSE]
    ELSE h

\* ToDo.mark_undone
ToDo_mark_undone(h, t) ==
    IF h[t].done
    THEN [h EXCEPT ![t].done = FALSE,
                   ![t].completed_at = None,
                   ![t].actual_time = None,
                   ![t].in_progress = FALSE]
    ELSE h

\* ToDo.set_in_progress
ToDo_set_in_progress(h, t) ==
    IF ~h[t].done /\ ~h[t].in_progress
    THEN [h EXCEPT ![t].in_progress = TRUE]
    ELSE h

\* ToDo.is_overdue on the day `today`
ToDo_is_overdue(h, t, today) == h[t].deadline < today /\ ~h[t].done

\* ToDo.update_priority with an int: priority - updater, clamped to the
\* range when Priority.__sub__ raises ValueError
ToDo_update_priority(h, t, updater) ==
    LET r == Priority_sub(h[t].priority, updater)
        m == h[t].priority - updater
    IN  IF r.err = "ok"
        THEN [h EXCEPT ![t].priority = r.level]
        ELSE IF m < 1
        THEN [h EXCEPT ![t].priority = Priority_blocking]
        ELSE IF m > 7
        THEN [h EXCEPT ![t].priority = Priority_parked]
        ELSE h

\* the while loop of ToDo.depends_on: an explicit stack, popped at its end
RECURSIVE depends_on_loop(_, _, _, _)
depends_on_loop(h, stack, visited, other) ==
    IF stack = << >> THEN FALSE
    ELSE LET current == stack[Len(stack)]
             rest    == SubSeq(stack, 1, Len(stack) - 1)
         IN  IF current \in visited
             THEN depends_on_loop(h, rest, visited, other)
             ELSE IF InSeq(other, h[current].dependencies)
             THEN TRUE
             ELSE depends_on_loop(h, rest \o h[current].dependencies,
                                  visited \cup {current}, other)

\* ToDo.depends_on
ToDo_depends_on(h, t, other) == depends_on_loop(h, << t >>, {}, other)

\* add_dependency without the depends_on check
add_dependency_no_cycle_check(h, self, task) ==
    IF task = self
    THEN [heap |-> h, err |-> "SelfDependency"]
    ELSE IF h[task].dependancy_of # << >>
    THEN [heap |-> h, err |-> "AlreadyHasParent"]
    ELSE IF ~InSeq(task, h[self].dependencies)
    THEN [heap |-> [h EXCEPT
                      ![self].dependencies = Append(@, task),
                      ![task].dependancy_of = Append(@, self)],
          err |-> "ok"]
    ELSE [heap |-> h, err |-> "ok"]

\* add_dependency without the dependancy_of check
add_dependency_no_parent_check(h, self, task) ==
    IF task = self
    THEN [heap |-> h, err |-> "SelfDependency"]
    ELSE IF depends_on_loop(h, << task >>, {}, self)
    THEN [heap |-> h, err |-> "CycleDetected"]
    ELSE IF ~InSeq(task, h[self].dependencies)
    THEN [heap |-> [h EXCEPT
                      ![self].dependencies = Append(@, task),
                      ![task].dependancy_of = Append(@, self)],
          err |-> "ok"]
    ELSE [heap |-> h, err |-> "ok"]

\* add_dependency without the `task is self` check
add_dependency_no_self_check(h, self, task) ==
    IF depends_on_loop(h, << task >>, {}, self)
    THEN [heap |-> h, err |-> "CycleDetected"]
    ELSE IF h[task].dependancy_of # << >>
    THEN [heap |-> h, err |-> "AlreadyHasParent"]
    ELSE IF ~InSeq(task, h[self].dependencies)
    THEN [heap |-> [h EXCEPT
                      ![self].dependencies = Append(@, task),
                      ![task].dependancy_of = Append(@, self)],
          err |-> "ok"]
    ELSE [heap |-> h, err |-> "ok"]

\* add_dependency that links the tasks before it runs the dependancy_of check
add_dependency_link_before_parent_check(h, self, task) ==
    IF task = self
    THEN [heap |-> h, err |-> "SelfDependency"]
    ELSE IF depends_on_loop(h, << task >>, {}, self)
    THEN [heap |-> h, err |-> "CycleDetected"]
    ELSE LET h1 == IF ~InSeq(task, h[self].dependencies)
                   THEN [h EXCEPT ![self].dependencies = Append(@, task),
                                  ![task].dependancy_of = Append(@, self)]
                   ELSE h
         IN  IF h[task].dependancy_of # << >>
             THEN [heap |-> h1, err |-> "AlreadyHasParent"]
             ELSE [heap |-> h1, err |-> "ok"]

\* ToDo.add_dependency: self.add_dependency(task); err names the check that raised
ToDo_add_dependency(h, self, task) ==
    IF task = self
    THEN [heap |-> h, err |-> "SelfDependency"]
    ELSE IF ToDo_depends_on(h, task, self)
    THEN [heap |-> h, err |-> "CycleDetected"]
    ELSE IF h[task].dependancy_of # << >>
    THEN [heap |-> h, err |-> "AlreadyHasParent"]
    ELSE IF ~InSeq(task, h[self].dependencies)
    THEN [heap |-> [h EXCEPT
                      ![self].dependencies = Append(@, task),
                      ![task].dependancy_of = Append(@, self)],
          err |-> "ok"]
    ELSE [heap |-> h, err |-> "ok"]

\* remove_dependancy that forgets the back-reference in task.dependancy_of
remove_dependancy_one_sided(h, self, task) ==
    IF InSeq(task, h[self].dependencies)
    THEN [h EXCEPT ![self].dependencies = ListRemove(@, task)]
    ELSE h

\* ToDo.remove_dependancy: self.remove_dependancy(task)
ToDo_remove_dependancy(h, self, task) ==
    IF InSeq(task, h[self].dependencies)
    THEN LET h1 == [h EXCEPT ![self].dependencies = ListRemove(@, task)]
         IN  IF InSeq(self, h1[task].dependancy_of)
             THEN [h1 EXCEPT ![task].dependancy_of = ListRemove(@, self)]
             ELSE h1
    ELSE h

\* ToDo.remove_all_dependencies: the heap, the shared visited set and the
\* set of removed tasks are threaded through the recursion
RECURSIVE ToDo_remove_all_dependencies(_, _, _)
RECURSIVE remove_all_loop(_, _, _, _, _)
remove_all_loop(h, self, deps, visited, removed) ==
    IF deps = << >>
    THEN [heap |-> h, visited |-> visited, removed |-> removed]
    ELSE LET dep == Head(deps)
             r   == ToDo_remove_all_dependencies(h, dep, visited)
             h1  == IF InSeq(self, r.heap[dep].dependancy_of)
                    THEN [r.heap EXCEPT ![dep].dependancy_of = ListRemove(@, self)]
                    ELSE r.heap
         IN  remove_all_loop(h1, self, Tail(deps), r.visited,
                             removed \cup {dep} \cup r.removed)

ToDo_remove_all_dependencies(h, self, visited) ==
    IF self \in visited
    THEN [heap |-> h, visited |-> visited, removed |-> {}]
    ELSE LET r == remove_all_loop(h, self, h[self].dependencies,
                                  visited \cup {self}, {})
         IN  [heap    |-> [r.heap EXCEPT ![self].dependencies = << >>],
              visited |-> r.visited,
              removed |-> r.removed]

(* ---------------------------- ToDoManager ---------------------------- *)

\* sum(dep.actual_time or 0 for dep in parent.dependencies)
RECURSIVE total_time(_, _)
total_time(h, deps) ==
    IF deps = << >> THEN 0
    ELSE (IF h[Head(deps)].actual_time = None THEN 0
          ELSE h[Head(deps)].actual_time[1])
         + total_time(h, Tail(deps))

\* ToDoManager._mark_done_recursive; the loop over task.dependancy_of is
\* mark_done_parents.  Both return the heap and the shared visited set, which
\* is kept in the order of its visited.add calls: it lists the tasks whose
\* body ran, in the order they were processed.
RECURSIVE ToDoManager_mark_done_recursive(_, _, _, _)
RECURSIVE mark_done_parents(_, _, _)

\* the parent loop completing a project parent without climbing further
RECURSIVE mark_done_parents_one_level(_, _, _)
mark_done_parents_one_level(h, parents, visited) ==
    IF parents = << >>
    THEN [heap |-> h, visited |-> visited]
    ELSE LET parent == Head(parents)
         IN  IF h[parent].is_project /\ ToDo_is_unblocked(h, parent)
             THEN LET total == Some(total_time(h, h[parent].dependencies))
                  IN  mark_done_parents_one_level(ToDo_mark_done(h, parent, total),
                                                  Tail(parents), visited)
             ELSE mark_done_parents_one_level(h, Tail(parents), visited)

\* the parent loop completing every unblocked parent, project or not
RECURSIVE mark_done_parents_any_parent(_, _, _)
mark_done_parents_any_parent(h, parents, visited) ==
    IF parents = << >>
    THEN [heap |-> h, visited |-> visited]
    ELSE LET parent == Head(parents)
         IN  IF ToDo_is_unblocked(h, parent)
             THEN LET total == Some(total_time(h, h[parent].dependencies))
                      h1 == ToDo_mark_done(h, parent, total)
                      r  == ToDoManager_mark_done_recursive(h1, parent, total, visited)
                  IN  mark_done_parents_any_parent(r.heap, Tail(parents), r.visited)
             ELSE mark_done_parents_any_parent(h, Tail(parents), visited)

\* the parent loop completing a project parent without a summed time
RECURSIVE mark_done_parents_without_total(_, _, _)
mark_done_parents_without_total(h, parents, visited) ==
    IF parents = << >>
    THEN [heap |-> h, visited |-> visited]
    ELSE LET parent == Head(parents)
         IN  IF h[parent].is_project /\ ToDo_is_unblocked(h, parent)
             THEN LET h1 == ToDo_mark_done(h, parent, None)
                      r  == ToDoManager_mark_done_recursive(h1, parent, None, visited)
                  IN  mark_done_parents_without_total(r.heap, Tail(parents), r.visited)
             ELSE mark_done_parents_without_total(h, Tail(parents), visited)

mark_done_parents(h, parents, visited) ==
    IF parents = << >>
    THEN [heap |-> h, visited |-> visited]
    ELSE LET parent == Head(parents)
         IN  IF h[parent].is_project /\ ToDo_is_unblocked(h, parent)
             THEN LET total == Some(total_time(h, h[parent].dependencies))
                      h1 == ToDo_mark_done(h, parent, total)
                      r  == ToDoManager_mark_done_recursive(h1, parent, total, visited)
                  IN  mark_done_parents(r.heap, Tail(parents), r.visited)
             ELSE mark_done_parents(h, Tail(parents), visited)

ToDoManager_mark_done_recursive(h, task, actual_time, visited) ==
    IF InSeq(task, visited)
    THEN [heap |-> h, visited |-> visited]
    ELSE LET h1 == ToDo_mark_done(h, task, actual_time)
         IN  mark_done_parents(h1, h1[task].dependancy_of, Append(visited, task))

\* ToDoManager._mark_undone_recursive; the loop over task.dependancy_of is
\* mark_undone_parents
RECURSIVE ToDoManager_mark_undone_recursive(_, _, _)
RECURSIVE mark_undone_parents(_, _, _)

\* the parent loop reopening project parents only, as the done cascade does
RECURSIVE mark_undone_parents_projects_only(_, _, _)
mark_undone_parents_projects_only(h, parents, visited) ==
    IF parents = << >>
    THEN [heap |-> h, visited |-> visited]
    ELSE LET parent == Head(parents)
         IN  IF h[parent].is_project /\ (h[parent].done \/ h[parent].in_progress)
             THEN LET h1 == ToDo_mark_undone(h, parent)
                      r  == ToDoManager_mark_undone_recursive(h1, parent, visited)
                  IN  mark_undone_parents_projects_only(r.heap, Tail(parents),
                                                        r.visited)
             ELSE mark_undone_parents_projects_only(h, Tail(parents), visited)

\* the parent loop left out: a reopened task reopens no dependant
mark_undone_parents_none(h, parents, visited) ==
    [heap |-> h, visited |-> visited]

mark_undone_parents(h, parents, visited) ==
    IF parents = << >>
    THEN [heap |-> h, visited |-> visited]
    ELSE LET parent == Head(parents)
         IN  IF h[parent].done \/ h[parent].in_progress
             THEN LET h1 == ToDo_mark_undone(h, parent)
                      r  == ToDoManager_mark_undone_recursive(h1, parent, visited)
                  IN  mark_undone_parents(r.heap, Tail(parents), r.visited)
             ELSE mark_undone_parents(h, Tail(parents), visited)

\* the recursion stopped by a depth limit instead of the visited test
mark_undone_recursive_depth_limited(h, task, visited) ==
    IF Len(visited) > Len(h)
    THEN [heap |-> h, visited |-> visited]
    ELSE LET h1 == ToDo_mark_undone(h, task)
         IN  mark_undone_parents(h1, h1[task].dependancy_of, Append(visited, task))

\* the recursion climbing down the dependencies instead of up the dependants
mark_undone_recursive_downward(h, task, visited) ==
    IF InSeq(task, visited)
    THEN [heap |-> h, visited |-> visited]
    ELSE LET h1 == ToDo_mark_undone(h, task)
         IN  mark_undone_parents(h1, h1[task].dependencies, Append(visited, task))

ToDoManager_mark_undone_recursive(h, task, visited) ==
    IF InSeq(task, visited)
    THEN [heap |-> h, visited |-> visited]
    ELSE LET h1 == ToDo_mark_undone(h, task)
         IN  mark_undone_parents(h1, h1[task].dependancy_of, Append(visited, task))

\* ToDoManager.get_todo(id=...): the lookup succeeds iff a task of the
\* collection carries the id (ids are unique, the match is the task itself)
ToDoManager_get_todo(col, id) == InSeq(id, col)

\* ToDoManager.mark_done(id=..., actual_time=...): the heap and the visited
\* list of the cascade, and whether the lookup raised
ToDoManager_mark_done(h, col, id, actual_time) ==
    IF ~ToDoManager_get_todo(col, id)
    THEN [heap |-> h, err |-> "ValueError", visited |-> << >>]
    ELSE ToDoManager_mark_done_recursive(h, id, actual_time, << >>)
             @@ [err |-> "ok"]

\* ToDoManager.mark_undone(id=...): the heap and the visited list of the
\* cascade, and whether the lookup raised
ToDoManager_mark_undone(h, col, id) ==
    IF ~ToDoManager_get_todo(col, id)
    THEN [heap |-> h, err |-> "ValueError", visited |-> << >>]
    ELSE ToDoManager_mark_undone_recursive(h, id, << >>) @@ [err |-> "ok"]

\* set_in_progress without the mark_undone call that precedes task.set_in_progress
set_in_progress_without_undo(h, col, id) ==
    IF ~InSeq(id, col)
    THEN [heap |-> h, err |-> "ValueError"]
    ELSE [heap |-> ToDo_set_in_progress(h, id), err |-> "ok"]

\* ToDoManager.set_in_progress(id=...): one match, undone first
ToDoManager_set_in_progress(h, col, id) ==
    IF ~ToDoManager_get_todo(col, id)
    THEN [heap |-> h, err |-> "ValueError"]
    ELSE [heap |-> ToDo_set_in_progress(ToDoManager_mark_undone(h, col, id).heap, id),
          err  |-> "ok"]

\* ToDoManager.update_todo_states: one pass over self.todos in list order
RECURSIVE update_loop(_, _, _)

\* the pass with its downward correction only: no project is completed
RECURSIVE update_loop_downward_only(_, _, _)
update_loop_downward_only(h, col, rest) ==
    IF rest = << >> THEN h
    ELSE LET task == Head(rest)
             h1 == IF h[task].done /\ ~ToDo_is_unblocked(h, task)
                   THEN ToDoManager_mark_undone(h, col, task).heap
                   ELSE h
         IN  update_loop_downward_only(h1, col, Tail(rest))

update_loop(h, col, rest) ==
    IF rest = << >> THEN h
    ELSE LET task == Head(rest)
             h1 == IF h[task].done /\ ~ToDo_is_unblocked(h, task)
                   THEN ToDoManager_mark_undone(h, col, task).heap
                   ELSE IF ~h[task].done /\ h[task].is_project
                           /\ ToDo_is_unblocked(h, task)
                   THEN ToDoManager_mark_done(h, col, task, None).heap
                   ELSE h
         IN  update_loop(h1, col, Tail(rest))

ToDoManager_update_todo_states(h, col) == update_loop(h, col, col)

\* ToDoManager.automatic_status_update: one pass over self.todos in list
\* order, reopening each task that is blocked while done or in progress
RECURSIVE status_update_loop(_, _, _)
status_update_loop(h, col, rest) ==
    IF rest = << >> THEN h
    ELSE LET task == Head(rest)
             h1 == IF ~ToDo_is_unblocked(h, task)
                      /\ (h[task].done \/ h[task].in_progress)
                   THEN ToDoManager_mark_undone(h, col, task).heap
                   ELSE h
         IN  status_update_loop(h1, col, Tail(rest))

ToDoManager_automatic_status_update(h, col) == status_update_loop(h, col, col)

\* ToDoManager.add_todo
ToDoManager_add_todo(h, col, task) ==
    IF ~InSeq(task, col)
    THEN [heap  |-> ToDoManager_update_todo_states(h, Append(col, task)),
          todos |-> Append(col, task)]
    ELSE [heap |-> h, todos |-> col]

\* ToDoManager.remove_todo
ToDoManager_remove_todo(h, col, task) ==
    IF InSeq(task, col)
    THEN LET h1   == IF h[task].is_project
                     THEN ToDo_remove_all_dependencies(h, task, {}).heap
                     ELSE h
             col1 == ListRemove(col, task)
         IN  [heap  |-> ToDoManager_update_todo_states(h1, col1),
              todos |-> col1, ret |-> TRUE]
    ELSE [heap |-> h, todos |-> col, ret |-> FALSE]

\* ToDoManager.add_dependancy_of(todo, id=...)
ToDoManager_add_dependancy_of(h, col, todo, id) ==
    IF ~ToDoManager_get_todo(col, id)
    THEN [heap |-> h, err |-> "ValueError"]
    ELSE ToDo_add_dependency(h, id, todo)

(* ------------------- ToDoManager: priority escalation ----------------- *)

\* the value of task.updated on a task that was never escalated
ToDo_updated_init == 0

\* a ToDo with its escalation counter `updated`
WithUpdated(todo) == todo @@ [updated |-> ToDo_updated_init]

\* the body of the loop of automatic_priority_update for one task: the branch
\* taken (0 for none) and the heap after it
priority_update_step(h, task, today) ==
    LET diff == today - h[task].deadline
        branch == IF diff = 3 /\ h[task].updated = 0 THEN 1
                  ELSE IF diff = 1 /\ h[task].updated <= 1 THEN 2
                  ELSE IF ToDo_is_overdue(h, task, today) /\ diff = 0 - 1
                          /\ h[task].updated <= 2 THEN 3
                  ELSE 0
    IN  [heap   |-> IF branch = 0 THEN h
                    ELSE [ToDo_update_priority(h, task, 1) EXCEPT
                             ![task].updated = @ + 1],
         branch |-> branch]

\* ToDoManager.automatic_priority_update on the day `today`: the heap after
\* the loop over self.todos and the branch each task took
RECURSIVE priority_update_loop(_, _, _, _)
priority_update_loop(h, rest, today, branches) ==
    IF rest = << >> THEN [heap |-> h, branches |-> branches]
    ELSE LET r == priority_update_step(h, Head(rest), today)
         IN  priority_update_loop(r.heap, Tail(rest), today,
                                  branches @@ (Head(rest) :> r.branch))

ToDoManager_automatic_priority_update(h, col, today) ==
    priority_update_loop(h, col, today, << >>)

(* ------------------- ToDoManager: lookup by title -------------------- *)

\* ToDoManager.get_todo(title=...): [t for t in self.todos if t.title == title],
\* the matches in list order; the caller raises ValueError when it is empty
RECURSIVE get_todo_title(_, _, _)
get_todo_title(h, col, title) ==
    IF col = << >> THEN << >>
    ELSE (IF h[Head(col)].title = title THEN << Head(col) >> ELSE << >>)
         \o get_todo_title(h, Tail(col), title)

\* ToDoManager.get_todo(title=...) as called from outside: the list or the error
ToDoManager_get_todo_title(h, col, title) ==
    LET matches == get_todo_title(h, col, title)
    IN  IF matches = << >>
        THEN [ret |-> << >>, err |-> "ValueError"]
        ELSE [ret |-> matches, err |-> "ok"]

\* `for task in tasks: self._mark_done_recursive(task, actual_time, visited=set())`
RECURSIVE mark_done_each(_, _, _)
mark_done_each(h, matches, actual_time) ==
    IF matches = << >> THEN h
    ELSE mark_done_each(
             ToDoManager_mark_done_recursive(h, Head(matches), actual_time, << >>).heap,
             Tail(matches), actual_time)

\* ToDoManager.mark_done(title=..., actual_time=...)
ToDoManager_mark_done_title(h, col, title, actual_time) ==
    LET matches == get_todo_title(h, col, title)
    IN  IF matches = << >>
        THEN [heap |-> h, err |-> "ValueError"]
        ELSE [heap |-> mark_done_each(h, matches, actual_time), err |-> "ok"]

\* `for task in tasks: self._mark_undone_recursive(task, visited=set())`
RECURSIVE mark_undone_each(_, _)
mark_undone_each(h, matches) ==
    IF matches = << >> THEN h
    ELSE mark_undone_each(
             ToDoManager_mark_undone_recursive(h, Head(matches), << >>).heap,
             Tail(matches))

\* ToDoManager.mark_undone(title=...)
ToDoManager_mark_undone_title(h, col, title) ==
    LET matches == get_todo_title(h, col, title)
    IN  IF matches = << >>
        THEN [heap |-> h, err |-> "ValueError"]
        ELSE [heap |-> mark_undone_each(h, matches), err |-> "ok"]

\* `for task in tasks: self.mark_undone(title=title, id=id); task.set_in_progress()`
RECURSIVE set_in_progress_each(_, _, _, _)
set_in_progress_each(h, col, title, matches) ==
    IF matches = << >> THEN h
    ELSE LET h1 == ToDoManager_mark_undone_title(h, col, title).heap
         IN  set_in_progress_each(ToDo_set_in_progress(h1, Head(matches)),
                                  col, title, Tail(matches))

\* ToDoManager.set_in_progress(title=...)
ToDoManager_set_in_progress_title(h, col, title) ==
    LET matches == get_todo_title(h, col, title)
    IN  IF matches = << >>
        THEN [heap |-> h, err |-> "ValueError"]
        ELSE [heap |-> set_in_progress_each(h, col, title, matches), err |-> "ok"]

\* update_todo resolving a title that matches several tasks to the first match
update_todo_first_match(h, col, title, deadline) ==
    LET matches == get_todo_title(h, col, title)
    IN  IF matches = << >>
        THEN [heap |-> h, err |-> "ValueError"]
        ELSE [heap |-> [h EXCEPT ![matches[1]].deadline = deadline], err |-> "ok"]

\* ToDoManager.update_todo({"deadline": deadline}, title=...)
ToDoManager_update_todo_title(h, col, title, deadline) ==
    LET matches == get_todo_title(h, col, title)
    IN  IF matches = << >>
        THEN [heap |-> h, err |-> "ValueError"]
        ELSE IF Len(matches) > 1
        THEN [heap |-> h, err |-> "ValueError"]
        ELSE [heap |-> [h EXCEPT ![matches[1]].deadline = deadline], err |-> "ok"]

\* ToDoManager.add_dependancy_of(todo, title=...)
ToDoManager_add_dependancy_of_title(h, col, todo, title) ==
    LET parents == get_todo_title(h, col, title)
    IN  IF parents = << >>
        THEN [heap |-> h, err |-> "ValueError"]
        ELSE IF Len(parents) > 1
        THEN [heap |-> h, err |-> "ValueError"]
        ELSE ToDo_add_dependency(h, parents[1], todo)

(* ---------------------- ToDoManager: persistence ---------------------- *)

\* Date.__repr__: the date as the string 'month-day-year'
Date_repr(d) == << "m-d-Y", d >>

\* Date.from_string(s): the date parsed from a 'month-day-year' string
Date_from_string(s) == s[2]

\* [{"id": dep.id, "title": dep.title} for dep in ...]
ToDo_refs(h, deps) == [i \in 1 .. Len(deps) |-> [id |-> deps[i], title |-> h[deps[i]].title]]

\* ToDo.to_dict: the entries the model's ToDo carries
ToDo_to_dict(h, t) ==
    [ id            |-> t,
      title         |-> h[t].title,
      priority      |-> Some(Priority_name(h[t].priority)),
      deadline      |-> Some(Date_repr(h[t].deadline)),
      done          |-> h[t].done,
      in_progress   |-> h[t].in_progress,
      completed_at  |-> IF h[t].completed_at # None
                        THEN Some(Date_repr(h[t].completed_at[1])) ELSE None,
      actual_time   |-> h[t].actual_time,
      is_project    |-> h[t].is_project,
      dependencies  |-> ToDo_refs(h, h[t].dependencies),
      dependancy_of |-> ToDo_refs(h, h[t].dependancy_of) ]

\* ToDo.from_dict: the constructor call and the two attributes set after it;
\* the edge lists are empty until the manager relinks them
ToDo_from_dict(data) ==
    [ ToDo_init(data.title, data.is_project,
                IF data.deadline # None
                THEN Some(Date_from_string(data.deadline[1])) ELSE None)
      EXCEPT !.priority = IF data.priority # None
                          THEN Priority_level(data.priority[1])
                          ELSE Priority_parked,
             !.done = data.done,
             !.completed_at = IF data.completed_at # None
                              THEN Some(Date_from_string(data.completed_at[1]))
                              ELSE None,
             !.actual_time = data.actual_time,
             !.in_progress = data.in_progress ]

\* ToDoManager.to_dict: {"todos": [t.to_dict() for t in self.todos]}
ToDoManager_to_dict(h, col) == [i \in 1 .. Len(col) |-> ToDo_to_dict(h, col[i])]

\* [id_map.get(ref["id"]) for ref in refs if ref["id"] in id_map]
RECURSIVE resolve_refs(_, _)
resolve_refs(refs, id_map) ==
    IF refs = << >> THEN << >>
    ELSE (IF Head(refs).id \in id_map THEN << Head(refs).id >> ELSE << >>)
         \o resolve_refs(Tail(refs), id_map)

\* ToDoManager.from_dict: the rebuilt ToDo objects take the place of the
\* saved ones under their ids; objects outside the saved collection stay
ToDoManager_from_dict(h, data) ==
    LET id_map == {data[i].id : i \in 1 .. Len(data)}
        entry(id) == data[CHOOSE i \in 1 .. Len(data) : data[i].id = id]
    IN  [heap  |-> [t \in DOMAIN h |->
                      IF t \in id_map
                      THEN [ToDo_from_dict(entry(t)) EXCEPT
                              !.dependencies = resolve_refs(entry(t).dependencies,
                                                            id_map),
                              !.dependancy_of = resolve_refs(entry(t).dependancy_of,
                                                             id_map)]
                      ELSE h[t]],
         todos |-> [i \in 1 .. Len(data) |-> data[i].id]]

\* ToDoManager.load: from_dict, then update_todo_states
ToDoManager_load(h, data) ==
    LET m == ToDoManager_from_dict(h, data)
    IN  [heap  |-> ToDoManager_update_todo_states(m.heap, m.todos),
         todos |-> m.todos]

(* --------------------------- AutomaticToDo ---------------------------- *)

\* AutomaticToDo.__init__ followed by add_template_subtask calls
AutomaticToDo_init(interval_days, start_date, offsets, active) ==
    [ interval_days       |-> interval_days,
      start_date          |-> start_date,
      template_subtasks   |->
          [i \in 1 .. Len(offsets) |->
              [todo |-> ToDo_init(<< "template", i >>, FALSE, None),
               offset_days |-> offsets[i]]],
      generated_todos     |-> << >>,
      last_generated_date |-> None,
      active              |-> active ]

\* sub.clone(): a fresh ToDo carrying the template's attributes
ToDo_clone(todo) == todo

\* the loop over self.template_subtasks for one occurrence: st is the heap
\* and the collection, parent the id of the occurrence's parent task
RECURSIVE subtask_loop(_, _, _)
\* the subtask loop without the append to parent_todo.dependencies
RECURSIVE subtask_loop_child_side_only(_, _, _)
subtask_loop_child_side_only(st, parent, subs) ==
    IF subs = << >> THEN st
    ELSE LET id       == Len(st.heap) + 1
             sub_copy == [ToDo_clone(Head(subs).todo) EXCEPT
                             !.dependencies = << >>,
                             !.dependancy_of = << parent >>,
                             !.deadline = st.heap[parent].deadline
                                            + Head(subs).offset_days]
             added    == ToDoManager_add_todo(Append(st.heap, sub_copy),
                                              st.todos, id)
         IN  subtask_loop_child_side_only(
                 [heap |-> added.heap, todos |-> added.todos],
                 parent, Tail(subs))

subtask_loop(st, parent, subs) ==
    IF subs = << >> THEN st
    ELSE LET id       == Len(st.heap) + 1
             sub_copy == [ToDo_clone(Head(subs).todo) EXCEPT
                             !.dependencies = << >>,
                             !.dependancy_of = << parent >>,
                             !.deadline = st.heap[parent].deadline
                                            + Head(subs).offset_days]
             added    == ToDoManager_add_todo(Append(st.heap, sub_copy),
                                              st.todos, id)
             linked   == [added.heap EXCEPT ![parent].dependencies = Append(@, id)]
         IN  subtask_loop([heap |-> linked, todos |-> added.todos],
                          parent, Tail(subs))

\* the body of the while loop of AutomaticToDo.generate_due_tasks run once,
\* for following the loop iteration by iteration: g carries the heap, the
\* collection, the blueprint, current_date and new_tasks
generate_iteration(g) ==
    LET current_date == g.current_date + g.bp.interval_days
        n        == Len(g.bp.generated_todos) + 1
        deadline == current_date + g.bp.interval_days
        id       == Len(g.heap) + 1
        parent_todo == ToDo_init(<< "occurrence", n >>, FALSE, Some(deadline))
        added    == ToDoManager_add_todo(Append(g.heap, parent_todo),
                                         g.todos, id)
        st       == subtask_loop([heap |-> added.heap, todos |-> added.todos],
                                 id, g.bp.template_subtasks)
    IN  [heap  |-> st.heap,
         todos |-> st.todos,
         bp    |-> [g.bp EXCEPT !.generated_todos = Append(@, id)],
         current_date |-> current_date,
         new_tasks    |-> Append(g.new_tasks, id)]

\* the while loop of AutomaticToDo.generate_due_tasks run to its end
RECURSIVE generate_loop(_, _)
\* the while loop giving each occurrence its own date as deadline
RECURSIVE generate_loop_deadline_on_date(_, _)
generate_loop_deadline_on_date(g, today) ==
    IF g.current_date + g.bp.interval_days <= today
    THEN LET current_date == g.current_date + g.bp.interval_days
             n        == Len(g.bp.generated_todos) + 1
             deadline == current_date
             id       == Len(g.heap) + 1
             parent_todo == ToDo_init(<< "occurrence", n >>, FALSE, Some(deadline))
             added    == ToDoManager_add_todo(Append(g.heap, parent_todo),
                                              g.todos, id)
             st       == subtask_loop([heap |-> added.heap, todos |-> added.todos],
                                      id, g.bp.template_subtasks)
         IN  generate_loop_deadline_on_date(
                 [heap  |-> st.heap,
                  todos |-> st.todos,
                  bp    |-> [g.bp EXCEPT !.generated_todos = Append(@, id)],
                  current_date |-> current_date,
                  new_tasks    |-> Append(g.new_tasks, id)],
                 today)
    ELSE g

generate_loop(g, today) ==
    IF g.current_date + g.bp.interval_days <= today
    THEN LET current_date == g.current_date + g.bp.interval_days
             n        == Len(g.bp.generated_todos) + 1
             deadline == current_date + g.bp.interval_days
             id       == Len(g.heap) + 1
             parent_todo == ToDo_init(<< "occurrence", n >>, FALSE, Some(deadline))
             added    == ToDoManager_add_todo(Append(g.heap, parent_todo),
                                              g.todos, id)
             st       == subtask_loop([heap |-> added.heap, todos |-> added.todos],
                                      id, g.bp.template_subtasks)
         IN  generate_loop(
                 [heap  |-> st.heap,
                  todos |-> st.todos,
                  bp    |-> [g.bp EXCEPT !.generated_todos = Append(@, id)],
                  current_date |-> current_date,
                  new_tasks    |-> Append(g.new_tasks, id)],
                 today)
    ELSE g

\* generate_due_tasks restarting from start_date whatever the cursor says
generate_due_tasks_ignoring_cursor(h, col, b, today) ==
    IF ~b.active \/ today < b.start_date
    THEN [heap |-> h, todos |-> col, bp |-> b, ret |-> << >>]
    ELSE LET g == generate_loop([heap |-> h, todos |-> col, bp |-> b,
                                 current_date |-> b.start_date - b.interval_days,
                                 new_tasks |-> << >>], today)
         IN  [heap  |-> g.heap,
              todos |-> g.todos,
              bp    |-> IF g.new_tasks # << >>
                        THEN [g.bp EXCEPT !.last_generated_date = Some(g.current_date)]
                        ELSE g.bp,
              ret   |-> g.new_tasks]

\* generate_due_tasks whose first occurrence falls one interval after
\* start_date instead of on start_date
generate_due_tasks_after_start(h, col, b, today) ==
    IF ~b.active \/ today < b.start_date
    THEN [heap |-> h, todos |-> col, bp |-> b, ret |-> << >>]
    ELSE LET last_date == IF b.last_generated_date # None
                          THEN b.last_generated_date[1]
                          ELSE b.start_date
             g == generate_loop([heap |-> h, todos |-> col, bp |-> b,
                                 current_date |-> last_date,
                                 new_tasks |-> << >>], today)
         IN  [heap  |-> g.heap,
              todos |-> g.todos,
              bp    |-> IF g.new_tasks # << >>
                        THEN [g.bp EXCEPT !.last_generated_date = Some(g.current_date)]
                        ELSE g.bp,
              ret   |-> g.new_tasks]

\* generate_due_tasks without the test of self.active
generate_due_tasks_ignoring_active(h, col, b, today) ==
    IF today < b.start_date
    THEN [heap |-> h, todos |-> col, bp |-> b, ret |-> << >>]
    ELSE LET last_date == IF b.last_generated_date # None
                          THEN b.last_generated_date[1]
                          ELSE b.start_date - b.interval_days
             g == generate_loop([heap |-> h, todos |-> col, bp |-> b,
                                 current_date |-> last_date,
                                 new_tasks |-> << >>], today)
         IN  [heap  |-> g.heap,
              todos |-> g.todos,
              bp    |-> IF g.new_tasks # << >>
                        THEN [g.bp EXCEPT !.last_generated_date = Some(g.current_date)]
                        ELSE g.bp,
              ret   |-> g.new_tasks]

\* generate_due_tasks leaving the cursor on the first occurrence it produced
generate_due_tasks_cursor_on_first(h, col, b, today) ==
    IF ~b.active \/ today < b.start_date
    THEN [heap |-> h, todos |-> col, bp |-> b, ret |-> << >>]
    ELSE LET last_date == IF b.last_generated_date # None
                          THEN b.last_generated_date[1]
                          ELSE b.start_date - b.interval_days
             g == generate_loop([heap |-> h, todos |-> col, bp |-> b,
                                 current_date |-> last_date,
                                 new_tasks |-> << >>], today)
         IN  [heap  |-> g.heap,
              todos |-> g.todos,
              bp    |-> IF g.new_tasks # << >>
                        THEN [g.bp EXCEPT !.last_generated_date =
                                 Some(last_date + b.interval_days)]
                        ELSE g.bp,
              ret   |-> g.new_tasks]

\* generate_due_tasks leaving the cursor on today
generate_due_tasks_cursor_on_today(h, col, b, today) ==
    IF ~b.active \/ today < b.start_date
    THEN [heap |-> h, todos |-> col, bp |-> b, ret |-> << >>]
    ELSE LET last_date == IF b.last_generated_date # None
                          THEN b.last_generated_date[1]
                          ELSE b.start_date - b.interval_days
             g == generate_loop([heap |-> h, todos |-> col, bp |-> b,
                                 current_date |-> last_date,
                                 new_tasks |-> << >>], today)
         IN  [heap  |-> g.heap,
              todos |-> g.todos,
              bp    |-> IF g.new_tasks # << >>
                        THEN [g.bp EXCEPT !.last_generated_date = Some(today)]
                        ELSE g.bp,
              ret   |-> g.new_tasks]

\* AutomaticToDo.generate_due_tasks(manager, today)
AutomaticToDo_generate_due_tasks(h, col, b, today) ==
    IF ~b.active \/ today < b.start_date
    THEN [heap |-> h, todos |-> col, bp |-> b, ret |-> << >>]
    ELSE LET last_date == IF b.last_generated_date # None
                          THEN b.last_generated_date[1]
                          ELSE b.start_date - b.interval_days
             g == generate_loop([heap |-> h, todos |-> col, bp |-> b,
                                 current_date |-> last_date,
                                 new_tasks |-> << >>], today)
         IN  [heap  |-> g.heap,
              todos |-> g.todos,
              bp    |-> IF g.new_tasks # << >>
                        THEN [g.bp EXCEPT !.last_generated_date = Some(g.current_date)]
                        ELSE g.bp,
              ret   |-> g.new_tasks]

(* ------------------------- initial states ----------------------------- *)

NoBlueprint == [active |-> FALSE]

NoOp == [op |-> "init", n |-> 0]

\* the caller has constructed NumTasks ToDo objects, the first k of them as
\* projects (ids are interchangeable, so every mix of projects and plain
\* tasks is one of these up to renaming); the manager is empty
Init ==
    /\ \E k \in 0 .. NumTasks : tasks = [t \in Ids |-> ToDo_init(<< "task", t >>, t <= k, None)]
    /\ todos = << >>
    /\ bp = NoBlueprint
    /\ last = NoOp
    /\ pre = [tasks |-> tasks, todos |-> todos, bp |-> bp]

Snapshot == [tasks |-> tasks, todos |-> todos, bp |-> bp]

(* -------------------- ToDo edge operations alone ---------------------- *)

CallAddDependency(self, task) ==
    /\ last.n < MaxOps
    /\ LET r == ToDo_add_dependency(tasks, self, task)
       IN  /\ tasks' = r.heap
           /\ last' = [op |-> "add_dependency", n |-> last.n + 1,
                       self |-> self, task |-> task, err |-> r.err]
    /\ pre' = Snapshot
    /\ UNCHANGED <<todos, bp>>

CallRemoveDependancy(self, task) ==
    /\ last.n < MaxOps
    /\ tasks' = ToDo_remove_dependancy(tasks, self, task)
    /\ last' = [op |-> "remove_dependancy", n |-> last.n + 1,
                self |-> self, task |-> task, err |-> "ok"]
    /\ pre' = Snapshot
    /\ UNCHANGED <<todos, bp>>

CallRemoveAllDependencies(self) ==
    /\ last.n < MaxOps
    /\ LET r == ToDo_remove_all_dependencies(tasks, self, {})
       IN  /\ tasks' = r.heap
           /\ last' = [op |-> "remove_all_dependencies", n |-> last.n + 1,
                       self |-> self, removed |-> r.removed, err |-> "ok"]
    /\ pre' = Snapshot
    /\ UNCHANGED <<todos, bp>>

NextGraph ==
    \/ \E self \in Ids, task \in Ids : CallAddDependency(self, task)
    \/ \E self \in Ids, task \in Ids : CallRemoveDependancy(self, task)
    \/ \E self \in Ids : CallRemoveAllDependencies(self)

SpecGraph == Init /\ [][NextGraph]_vars

(* ------------------------ manager operations -------------------------- *)

AddTodo(task) ==
    /\ last.n < MaxOps
    /\ LET r == ToDoManager_add_todo(tasks, todos, task)
       IN  /\ tasks' = r.heap
           /\ todos' = r.todos
    /\ last' = [op |-> "add_todo", n |-> last.n + 1, task |-> task, err |-> "ok"]
    /\ pre' = Snapshot
    /\ UNCHANGED bp

RemoveTodo(task) ==
    /\ last.n < MaxOps
    /\ LET r == ToDoManager_remove_todo(tasks, todos, task)
       IN  /\ tasks' = r.heap
           /\ todos' = r.todos
           /\ last' = [op |-> "remove_todo", n |-> last.n + 1, task |-> task,
                       ret |-> r.ret, err |-> "ok"]
    /\ pre' = Snapshot
    /\ UNCHANGED bp

AddDependancyOf(todo, id) ==
    /\ last.n < MaxOps
    /\ LET r == ToDoManager_add_dependancy_of(tasks, todos, todo, id)
       IN  /\ tasks' = r.heap
           /\ last' = [op |-> "add_dependancy_of", n |-> last.n + 1,
                       todo |-> todo, id |-> id, err |-> r.err]
    /\ pre' = Snapshot
    /\ UNCHANGED <<todos, bp>>

MarkDone(id, actual_time) ==
    /\ last.n < MaxOps
    /\ LET r == ToDoManager_mark_done(tasks, todos, id, actual_time)
       IN  /\ tasks' = r.heap
           /\ last' = [op |-> "mark_done", n |-> last.n + 1, id |-> id,
                       actual_time |-> actual_time, err |-> r.err]
    /\ pre' = Snapshot
    /\ UNCHANGED <<todos, bp>>

MarkUndone(id) ==
    /\ last.n < MaxOps
    /\ LET r == ToDoManager_mark_undone(tasks, todos, id)
       IN  /\ tasks' = r.heap
           /\ last' = [op |-> "mark_undone", n |-> last.n + 1, id |-> id,
                       err |-> r.err]
    /\ pre' = Snapshot
    /\ UNCHANGED <<todos, bp>>

SetInProgress(id) ==
    /\ last.n < MaxOps
    /\ LET r == ToDoManager_set_in_progress(tasks, todos, id)
       IN  /\ tasks' = r.heap
           /\ last' = [op |-> "set_in_progress", n |-> last.n + 1, id |-> id,
                       err |-> r.err]
    /\ pre' = Snapshot
    /\ UNCHANGED <<todos, bp>>

UpdateTodoStates ==
    /\ last.n < MaxOps
    /\ tasks' = ToDoManager_update_todo_states(tasks, todos)
    /\ last' = [op |-> "update_todo_states", n |-> last.n + 1, err |-> "ok"]
    /\ pre' = Snapshot
    /\ UNCHANGED <<todos, bp>>

AutomaticStatusUpdate ==
    /\ last.n < MaxOps
    /\ tasks' = ToDoManager_automatic_status_update(tasks, todos)
    /\ last' = [op |-> "automatic_status_update", n |-> last.n + 1, err |-> "ok"]
    /\ pre' = Snapshot
    /\ UNCHANGED <<todos, bp>>

Next ==
    \/ \E task \in Ids : AddTodo(task)
    \/ \E task \in Ids : RemoveTodo(task)
    \/ \E todo \in Ids, id \in Ids : AddDependancyOf(todo, id)
    \/ \E id \in Ids, at \in ActualTimes : MarkDone(id, at)
    \/ \E id \in Ids : MarkUndone(id)
    \/ \E id \in Ids : SetInProgress(id)
    \/ UpdateTodoStates
    \/ AutomaticStatusUpdate

Spec == Init /\ [][Next]_vars

(* ----------------- manager operations called by title ----------------- *)

\* the number of different titles among the caller's tasks
NumTitles == 2

\* number of manager operations in one behaviour with lookups by title, and
\* in one behaviour with a save and a load
MaxShortOps == 4

Titles == {<< "task", c >> : c \in 1 .. NumTitles}

\* the caller has constructed NumTasks ToDo objects, the first k of them as
\* projects, with titles that may coincide; the manager is empty
InitTitle ==
    /\ \E k \in 0 .. NumTasks, title \in [Ids -> Titles] :
          tasks = [t \in Ids |-> ToDo_init(title[t], t <= k, None)]
    /\ todos = << >>
    /\ bp = NoBlueprint
    /\ last = NoOp
    /\ pre = [tasks |-> tasks, todos |-> todos, bp |-> bp]

TitleAddTodo(task) == last.n < MaxShortOps /\ AddTodo(task)

GetTodoByTitle(title) ==
    /\ last.n < MaxShortOps
    /\ LET r == ToDoManager_get_todo_title(tasks, todos, title)
       IN  last' = [op |-> "get_todo", n |-> last.n + 1, title |-> title,
                    ret |-> r.ret, err |-> r.err]
    /\ pre' = Snapshot
    /\ UNCHANGED <<tasks, todos, bp>>

MarkDoneByTitle(title, actual_time) ==
    /\ last.n < MaxShortOps
    /\ LET r == ToDoManager_mark_done_title(tasks, todos, title, actual_time)
       IN  /\ tasks' = r.heap
           /\ last' = [op |-> "mark_done", n |-> last.n + 1, title |-> title,
                       actual_time |-> actual_time, err |-> r.err]
    /\ pre' = Snapshot
    /\ UNCHANGED <<todos, bp>>

MarkUndoneByTitle(title) ==
    /\ last.n < MaxShortOps
    /\ LET r == ToDoManager_mark_undone_title(tasks, todos, title)
       IN  /\ tasks' = r.heap
           /\ last' = [op |-> "mark_undone", n |-> last.n + 1, title |-> title,
                       err |-> r.err]
    /\ pre' = Snapshot
    /\ UNCHANGED <<todos, bp>>

SetInProgressByTitle(title) ==
    /\ last.n < MaxShortOps
    /\ LET r == ToDoManager_set_in_progress_title(tasks, todos, title)
       IN  /\ tasks' = r.heap
           /\ last' = [op |-> "set_in_progress", n |-> last.n + 1,
                       title |-> title, err |-> r.err]
    /\ pre' = Snapshot
    /\ UNCHANGED <<todos, bp>>

UpdateTodoByTitle(title, deadline) ==
    /\ last.n < MaxShortOps
    /\ LET r == ToDoManager_update_todo_title(tasks, todos, title, deadline)
       IN  /\ tasks' = r.heap
           /\ last' = [op |-> "update_todo", n |-> last.n + 1, title |-> title,
                       deadline |-> deadline, err |-> r.err]
    /\ pre' = Snapshot
    /\ UNCHANGED <<todos, bp>>

AddDependancyOfByTitle(todo, title) ==
    /\ last.n < MaxShortOps
    /\ LET r == ToDoManager_add_dependancy_of_title(tasks, todos, todo, title)
       IN  /\ tasks' = r.heap
           /\ last' = [op |-> "add_dependancy_of", n |-> last.n + 1,
                       todo |-> todo, title |-> title, err |-> r.err]
    /\ pre' = Snapshot
    /\ UNCHANGED <<todos, bp>>

NextTitle ==
    \/ \E task \in Ids : TitleAddTodo(task)
    \/ \E title \in Titles : GetTodoByTitle(title)
    \/ \E title \in Titles : MarkDoneByTitle(title, None)
    \/ \E title \in Titles : MarkUndoneByTitle(title)
    \/ \E title \in Titles : SetInProgressByTitle(title)
    \/ \E title \in Titles : UpdateTodoByTitle(title, Today + 2)
    \/ \E todo \in Ids, title \in Titles : AddDependancyOfByTitle(todo, title)

SpecTitle == InitTitle /\ [][NextTitle]_vars

(* --------------------------- save and load ---------------------------- *)

\* manager.to_dict() followed by ToDoManager.from_dict(...)
FromDict ==
    /\ last.n < MaxShortOps
    /\ LET r == ToDoManager_from_dict(tasks, ToDoManager_to_dict(tasks, todos))
       IN  /\ tasks' = r.heap
           /\ todos' = r.todos
    /\ last' = [op |-> "from_dict", n |-> last.n + 1, err |-> "ok"]
    /\ pre' = Snapshot
    /\ UNCHANGED bp

\* manager.save(path) followed by ToDoManager.load(path)
Load ==
    /\ last.n < MaxShortOps
    /\ LET r == ToDoManager_load(tasks, ToDoManager_to_dict(tasks, todos))
       IN  /\ tasks' = r.heap
           /\ todos' = r.todos
    /\ last' = [op |-> "load", n |-> last.n + 1, err |-> "ok"]
    /\ pre' = Snapshot
    /\ UNCHANGED bp

NextPersist ==
    \/ \E task \in Ids : last.n < MaxShortOps /\ AddTodo(task)
    \/ \E task \in Ids : last.n < MaxShortOps /\ RemoveTodo(task)
    \/ \E todo \in Ids, id \in Ids : last.n < MaxShortOps /\ AddDependancyOf(todo, id)
    \/ \E id \in Ids : last.n < MaxShortOps /\ MarkDone(id, None)
    \/ \E id \in Ids : last.n < MaxShortOps /\ MarkUndone(id)
    \/ \E id \in Ids : last.n < MaxShortOps /\ SetInProgress(id)
    \/ FromDict
    \/ Load

SpecPersist == Init /\ [][NextPersist]_vars

(* ------------------------ priority escalation ------------------------- *)

\* the latest deadline of a task of the collection
MaxDeadline == 1

\* add_todo of every task, in the order of the ids
RECURSIVE add_all(_, _, _)
add_all(h, col, ids) ==
    IF ids = << >> THEN [heap |-> h, todos |-> col]
    ELSE LET r == ToDoManager_add_todo(h, col, Head(ids))
         IN  add_all(r.heap, r.todos, Tail(ids))

\* on day 0 the caller has constructed NumTasks plain tasks, with deadlines
\* from day 0 on and any priority, and added them to the manager; `last`
\* carries the day of the last call and, for every task, how often each of
\* the three branches of automatic_priority_update has raised its priority
InitEscalate ==
    /\ \E deadline \in [Ids -> 0 .. MaxDeadline],
          priority \in [Ids -> {Priority_blocking, Priority_blocking + 1,
                                Priority_parked}] :
          LET fresh == [t \in Ids |->
                           WithUpdated([ToDo_init(<< "task", t >>, FALSE,
                                                  Some(deadline[t]))
                                        EXCEPT !.priority = priority[t]])]
              r == add_all(fresh, << >>, [t \in Ids |-> t])
          IN  tasks = r.heap /\ todos = r.todos
    /\ bp = NoBlueprint
    /\ last = [op |-> "init", n |-> 0, today |-> Today,
               fired |-> [t \in Ids |-> [k \in 1 .. 3 |-> 0]]]
    /\ pre = [tasks |-> tasks, todos |-> todos, bp |-> bp]

\* one pass of the UI loop calling automatic_priority_update, on the day of
\* the previous call or on the day after it
AutomaticPriorityUpdate(today) ==
    /\ last.n < MaxOps
    /\ today <= MaxDay
    /\ LET r == ToDoManager_automatic_priority_update(tasks, todos, today)
       IN  /\ tasks' = r.heap
           /\ last' = [op |-> "automatic_priority_update", n |-> last.n + 1,
                       today |-> today,
                       fired |-> [t \in Ids |-> [k \in 1 .. 3 |->
                                    last.fired[t][k]
                                    + (IF r.branches[t] = k THEN 1 ELSE 0)]]]
    /\ pre' = Snapshot
    /\ UNCHANGED <<todos, bp>>

NextEscalate ==
    \/ AutomaticPriorityUpdate(last.today)
    \/ AutomaticPriorityUpdate(last.today + 1)

SpecEscalate == InitEscalate /\ [][NextEscalate]_vars

(* ------------------ the reconciliation pass alone --------------------- *)

\* the ids below `t` / above `t` that the edge set links to it, in id order
RECURSIVE edge_list(_, _, _)
edge_list(E, t, ids) ==
    IF ids = << >> THEN << >>
    ELSE (IF << t, Head(ids) >> \in E THEN << Head(ids) >> ELSE << >>)
         \o edge_list(E, t, Tail(ids))

\* every ordering of the ids as a list
Orderings == {p \in [Ids -> Ids] : \A a, b \in Ids : a # b => p[a] # p[b]}

\* a manager as ToDoManager.from_dict rebuilds it from a file: every task in
\* self.todos in any list order, any mix of projects and done flags, and any
\* acyclic set of edges (a task depends only on tasks of a higher id), stored
\* in both directions
InitReconcile ==
    /\ \E E \in SUBSET {e \in Ids \X Ids : e[1] < e[2]},
          project \in [Ids -> BOOLEAN], done \in [Ids -> BOOLEAN],
          order \in Orderings :
          /\ tasks = [t \in Ids |->
                        [ToDo_init(<< "task", t >>, project[t], None) EXCEPT
                            !.done = done[t],
                            !.completed_at = IF done[t] THEN Some(Today) ELSE None,
                            !.dependencies =
                                edge_list(E, t, [i \in Ids |-> i]),
                            !.dependancy_of =
                                edge_list({<< e[2], e[1] >> : e \in E}, t,
                                          [i \in Ids |-> i])]]
          /\ todos = order
    /\ bp = NoBlueprint
    /\ last = NoOp
    /\ pre = [tasks |-> tasks, todos |-> todos, bp |-> bp]

\* the pass run on the loaded collection
ReconcileLoaded == last.op = "init" /\ UpdateTodoStates

NextReconcile == ReconcileLoaded

SpecReconcile == InitReconcile /\ [][NextReconcile]_vars

(* ------------------ traversals of arbitrary graphs -------------------- *)

\* the largest number of edges assigned to the dependencies fields
MaxEdges == 3

\* the lifecycle states a task is put in before the traversal
Stages == {"open", "in_progress", "done"}

\* tasks whose dependencies and dependancy_of fields were assigned directly:
\* any set of up to MaxEdges edges, self-loops and cycles included, stored
\* in both directions; every task in the collection, in any lifecycle state
InitCycle ==
    /\ \E E \in SUBSET (Ids \X Ids), k \in 0 .. NumTasks,
          stage \in [Ids -> Stages] :
          /\ Cardinality(E) <= MaxEdges
          /\ tasks = [t \in Ids |->
                        [ToDo_init(<< "task", t >>, t <= k, None) EXCEPT
                            !.done = (stage[t] = "done"),
                            !.in_progress = (stage[t] = "in_progress"),
                            !.completed_at = IF stage[t] = "done"
                                             THEN Some(Today) ELSE None,
                            !.dependencies =
                                edge_list(E, t, [i \in Ids |-> i]),
                            !.dependancy_of =
                                edge_list({<< e[2], e[1] >> : e \in E}, t,
                                          [i \in Ids |-> i])]]
    /\ todos = [i \in Ids |-> i]
    /\ bp = NoBlueprint
    /\ last = NoOp
    /\ pre = [tasks |-> tasks, todos |-> todos, bp |-> bp]

CycleMarkDone(id, actual_time) ==
    /\ last.op = "init"
    /\ LET r == ToDoManager_mark_done(tasks, todos, id, actual_time)
       IN  /\ tasks' = r.heap
           /\ last' = [op |-> "mark_done", n |-> last.n + 1, id |-> id,
                       actual_time |-> actual_time, err |-> r.err,
                       visited |-> r.visited]
    /\ pre' = Snapshot
    /\ UNCHANGED <<todos, bp>>

CycleMarkUndone(id) ==
    /\ last.op = "init"
    /\ LET r == ToDoManager_mark_undone(tasks, todos, id)
       IN  /\ tasks' = r.heap
           /\ last' = [op |-> "mark_undone", n |-> last.n + 1, id |-> id,
                       err |-> r.err, visited |-> r.visited]
    /\ pre' = Snapshot
    /\ UNCHANGED <<todos, bp>>

CycleDependsOn(self, other) ==
    /\ last.op = "init"
    /\ last' = [op |-> "depends_on", n |-> last.n + 1, self |-> self,
                other |-> other, err |-> "ok",
                ret |-> ToDo_depends_on(tasks, self, other)]
    /\ pre' = Snapshot
    /\ UNCHANGED <<tasks, todos, bp>>

CycleRemoveAllDependencies(self) ==
    /\ last.op = "init"
    /\ CallRemoveAllDependencies(self)

NextCycle ==
    \/ \E id \in Ids, actual_time \in ActualTimes : CycleMarkDone(id, actual_time)
    \/ \E id \in Ids : CycleMarkUndone(id)
    \/ \E self \in Ids, other \in Ids : CycleDependsOn(self, other)
    \/ \E self \in Ids : CycleRemoveAllDependencies(self)

SpecCycle == InitCycle /\ [][NextCycle]_vars

(* ---------------------- the recurring generator ----------------------- *)

\* offsets of the template subtasks: the i-th is due i days before its parent
Offsets(k) == [i \in 1 .. k |-> 0 - i]

\* an empty manager and one blueprint, as constructed or as loaded (active
\* or not), with no occurrence generated yet
InitAuto ==
    /\ tasks = << >>
    /\ todos = << >>
    /\ \E iv \in 1 .. MaxInterval, sd \in 0 .. MaxStart,
          k \in 0 .. MaxSubtasks, a \in BOOLEAN :
          bp = AutomaticToDo_init(iv, sd, Offsets(k), a)
    /\ last = NoOp
    /\ pre = [tasks |-> tasks, todos |-> todos, bp |-> bp]

\* the call with `today` continues a run of consecutive generate_due_tasks
\* calls whose today values do not decrease; last.run is the state before
\* the first call of the run, last.produced what its calls returned so far
Continues(today) == last.op = "generate_due_tasks" /\ last.today <= today

GenerateDueTasks(today) ==
    /\ last.n < MaxCalls
    /\ LET r == AutomaticToDo_generate_due_tasks(tasks, todos, bp, today)
       IN  /\ tasks' = r.heap
           /\ todos' = r.todos
           /\ bp' = r.bp
           /\ last' = [op |-> "generate_due_tasks", n |-> last.n + 1,
                       today |-> today, ret |-> r.ret, err |-> "ok",
                       previous |-> IF last.op = "generate_due_tasks"
                                    THEN Some(last.today) ELSE None,
                       run      |-> IF Continues(today) THEN last.run
                                    ELSE Snapshot,
                       produced |-> IF Continues(today)
                                    THEN last.produced \o r.ret ELSE r.ret]
    /\ pre' = Snapshot

AutoMarkDone(id) == last.n < MaxCalls /\ MarkDone(id, None)

AutoMarkUndone(id) == last.n < MaxCalls /\ MarkUndone(id)

NextAuto ==
    \/ \E today \in 0 .. MaxDay : GenerateDueTasks(today)
    \/ \E id \in DOMAIN tasks : AutoMarkDone(id)
    \/ \E id \in DOMAIN tasks : AutoMarkUndone(id)

SpecAuto == InitAuto /\ [][NextAuto]_vars

(* ----------------- a blueprint with several subtasks ------------------ *)

\* an empty manager and an active blueprint to which add_template_subtask
\* was applied once more than in InitAuto, each time with another offset
InitTree ==
    /\ tasks = << >>
    /\ todos = << >>
    /\ \E iv \in 1 .. MaxInterval, sd \in 0 .. MaxStart :
          bp = AutomaticToDo_init(iv, sd, Offsets(MaxSubtasks + 1), TRUE)
    /\ last = NoOp
    /\ pre = [tasks |-> tasks, todos |-> todos, bp |-> bp]

NextTree == \E today \in 0 .. MaxDay : GenerateDueTasks(today)

SpecTree == InitTree /\ [][NextTree]_vars

(* ------------- the generator loop, iteration by iteration ------------- *)

\* the most iterations of the while loop that one call is followed through
MaxIterations == 3

\* the values of interval_days handed to the constructor, which tests none
Intervals == (0 - MaxInterval) .. MaxInterval

\* a blueprint with the end_date it was constructed with
WithEndDate(b, end_date) == b @@ [end_date |-> end_date]

\* an empty manager and an active blueprint constructed with any
\* interval_days, with or without an end_date
InitLoop ==
    /\ tasks = << >>
    /\ todos = << >>
    /\ \E iv \in Intervals, sd \in 0 .. MaxStart, k \in 0 .. MaxSubtasks,
          e \in {None} \cup {Some(d) : d \in 0 .. MaxDay} :
          bp = WithEndDate(AutomaticToDo_init(iv, sd, Offsets(k), TRUE), e)
    /\ last = NoOp
    /\ pre = [tasks |-> tasks, todos |-> todos, bp |-> bp]

\* generate_due_tasks is entered: the guard, then last_date and current_date
LoopEnter(today) ==
    /\ IF last.op = "init" THEN TRUE
       ELSE last.pc = "returned" /\ last.n < MaxCalls
    /\ last' = IF ~bp.active \/ today < bp.start_date
               THEN [op |-> "generate_due_tasks", n |-> last.n + 1,
                     pc |-> "returned", today |-> today, ret |-> << >>]
               ELSE LET last_date == IF bp.last_generated_date # None
                                     THEN bp.last_generated_date[1]
                                     ELSE bp.start_date - bp.interval_days
                    IN  [op |-> "generate_due_tasks", n |-> last.n + 1,
                         pc |-> "loop", today |-> today,
                         current_date |-> last_date,
                         previous_date |-> last_date,
                         new_tasks |-> << >>]
    /\ pre' = Snapshot
    /\ UNCHANGED <<tasks, todos, bp>>

\* the loop test holds: one iteration of the body
LoopIteration ==
    /\ last.op = "generate_due_tasks" /\ last.pc = "loop"
    /\ last.current_date + bp.interval_days <= last.today
    /\ Len(last.new_tasks) < MaxIterations
    /\ LET g == generate_iteration([heap |-> tasks, todos |-> todos, bp |-> bp,
                                    current_date |-> last.current_date,
                                    new_tasks |-> last.new_tasks])
       IN  /\ tasks' = g.heap
           /\ todos' = g.todos
           /\ bp' = g.bp
           /\ last' = [last EXCEPT !.current_date = g.current_date,
                                   !.previous_date = last.current_date,
                                   !.new_tasks = g.new_tasks]
    /\ pre' = Snapshot

\* the loop test fails: the cursor is set and new_tasks returned
LoopReturn ==
    /\ last.op = "generate_due_tasks" /\ last.pc = "loop"
    /\ ~(last.current_date + bp.interval_days <= last.today)
    /\ bp' = IF last.new_tasks # << >>
             THEN [bp EXCEPT !.last_generated_date = Some(last.current_date)]
             ELSE bp
    /\ last' = [op |-> "generate_due_tasks", n |-> last.n,
                pc |-> "returned", today |-> last.today,
                ret |-> last.new_tasks]
    /\ pre' = Snapshot
    /\ UNCHANGED <<tasks, todos>>

NextLoop ==
    \/ \E today \in 0 .. MaxDay : LoopEnter(today)
    \/ LoopIteration
    \/ LoopReturn

SpecLoop == InitLoop /\ [][NextLoop]_vars

(* ------------------------ a weekly blueprint -------------------------- *)

\* the latest day offered as `today` to the weekly blueprint
MaxWeeklyDay == 21

\* an empty manager and an active blueprint with interval_days = 7 and
\* start_date = day 0, with no occurrence generated yet
InitWeekly ==
    /\ tasks = << >>
    /\ todos = << >>
    /\ \E k \in 0 .. MaxSubtasks : bp = AutomaticToDo_init(7, 0, Offsets(k), TRUE)
    /\ last = NoOp
    /\ pre = [tasks |-> tasks, todos |-> todos, bp |-> bp]

NextWeekly == \E today \in 0 .. MaxWeeklyDay : GenerateDueTasks(today)

SpecWeekly == InitWeekly /\ [][NextWeekly]_vars

(* ======================= properties: the edge sets ==================== *)

HasEdge(h, a, b) == InSeq(b, h[a].dependencies)

\* the tasks reachable from the set S along dependencies edges
RECURSIVE Descendants(_, _)
Descendants(h, S) ==
    LET nxt == S \cup UNION {Range(h[x].dependencies) : x \in S}
    IN  IF nxt = S THEN S ELSE Descendants(h, nxt)

Reaches(h, a, b) == b \in Descendants(h, Range(h[a].dependencies))

\* C1: after any sequence of add_dependency, remove_dependancy and
\* remove_all_dependencies calls (raising or not) on tasks that start with no
\* edges, b is in a.dependencies iff a is in b.dependancy_of.
C1_MutualInverse ==
    \A a \in Ids, b \in Ids :
        InSeq(b, tasks[a].dependencies) <=> InSeq(a, tasks[b].dependancy_of)

\* a removal took an edge away while another edge is still in place
C1_Witness ==
    /\ last.op = "remove_dependancy"
    /\ HasEdge(pre.tasks, last.self, last.task)
    /\ ~HasEdge(tasks, last.self, last.task)
    /\ \E a \in Ids, b \in Ids : HasEdge(tasks, a, b)

\* C2: no sequence of add_dependency calls interleaved with remove_dependancy
\* reaches a state where depends_on(x, x) is true: dependencies stays acyclic.
C2_Acyclic == \A x \in Ids : ~ToDo_depends_on(tasks, x, x)

\* add_dependency refused to close a chain of two edges into a cycle
C2_Witness ==
    /\ last.op = "add_dependency"
    /\ last.err = "CycleDetected"
    /\ \E m \in Ids : /\ m # last.self /\ m # last.task
                      /\ HasEdge(tasks, last.task, m)
                      /\ HasEdge(tasks, m, last.self)

\* C3: with edges changed only by add_dependency, remove_dependancy and
\* remove_all_dependencies, every task has at most one entry in dependancy_of
\* and no task reaches itself: the graph is a forest.
C3_SingleParentForest ==
    \A t \in Ids : /\ Len(tasks[t].dependancy_of) <= 1
                   /\ ~Reaches(tasks, t, t)

\* add_dependency refused a second parent for a task that keeps its first
C3_Witness ==
    /\ last.op = "add_dependency"
    /\ last.err = "AlreadyHasParent"
    /\ Len(tasks[last.task].dependancy_of) = 1
    /\ tasks[last.task].dependancy_of[1] # last.self

\* C12: add_dependency(A, A) fails with the self-dependency error, and
\* add_dependency(D, A) fails with the cycle error for every D that A depends
\* on, directly or transitively; in both cases no dependencies or
\* dependancy_of list is changed.
C12_SelfAndCycleRefused ==
    last.op = "add_dependency"
        => /\ (last.self = last.task)
                => (last.err = "SelfDependency" /\ tasks = pre.tasks)
           /\ (last.self # last.task /\ Reaches(pre.tasks, last.task, last.self))
                => (last.err = "CycleDetected" /\ tasks = pre.tasks)

\* add_dependency(A, A) was refused for a task A in the middle of a chain
C12_Witness ==
    /\ last.op = "add_dependency"
    /\ last.self = last.task
    /\ last.err = "SelfDependency"
    /\ tasks[last.self].dependencies # << >>
    /\ tasks[last.self].dependancy_of # << >>

\* C13 as stated: add_dependency(parent, child) fails with the
\* already-has-parent error whenever child.dependancy_of is non-empty, and
\* leaves every list unchanged.
C13_ParentedChildAlreadyHasParent ==
    (last.op = "add_dependency" /\ pre.tasks[last.task].dependancy_of # << >>)
        => (last.err = "AlreadyHasParent" /\ tasks = pre.tasks)

\* C13, amended: add_dependency(parent, child) with child.dependancy_of
\* non-empty always fails and leaves every list unchanged; the error is the
\* already-has-parent one unless child is parent (self-dependency error) or
\* child depends on parent (cycle error), which are tested first.
C13_ParentedChildRefused ==
    (last.op = "add_dependency" /\ pre.tasks[last.task].dependancy_of # << >>)
        => /\ tasks = pre.tasks
           /\ last.err = (IF last.task = last.self THEN "SelfDependency"
                          ELSE IF Reaches(pre.tasks, last.task, last.self)
                          THEN "CycleDetected"
                          ELSE "AlreadyHasParent")

\* the already-has-parent error for a child whose parent is a third task,
\* the refused parent being itself a dependency of some task
C13_Witness ==
    /\ last.op = "add_dependency"
    /\ last.err = "AlreadyHasParent"
    /\ pre.tasks[last.task].dependancy_of # << >>
    /\ pre.tasks[last.self].dependancy_of # << >>
    /\ ~InSeq(last.self, pre.tasks[last.task].dependancy_of)
    /\ tasks = pre.tasks

(* ==================== properties: done / undone ======================= *)

\* the last operation was a manager call of this name whose lookup succeeded
Returned(op) == last.op = op /\ last.err = "ok"

Lifecycle(h, t) ==
    << h[t].done, h[t].in_progress, h[t].completed_at, h[t].actual_time >>

\* C4: if is_unblocked(t) is false when ToDoManager.mark_done(t) is called,
\* the call has no effect: t keeps done, completed_at, actual_time and
\* in_progress, and no other task's state changes.
C4_BlockedMarkDoneNoEffect ==
    (Returned("mark_done") /\ ~ToDo_is_unblocked(pre.tasks, last.id))
        => \A x \in Ids : Lifecycle(tasks, x) = Lifecycle(pre.tasks, x)

HasOpenDependency(h, t) == ~ToDo_is_unblocked(h, t)

C7_UndoCascade ==
    Returned("mark_undone")
        => \A i \in 1 .. Len(pre.tasks[last.id].dependancy_of) :
              LET p == pre.tasks[last.id].dependancy_of[i]
              IN  pre.tasks[p].done => ~tasks[p].done

\* a done non-project task lost its done flag when its done dependency was
\* marked undone
C7_Witness ==
    /\ Returned("mark_undone")
    /\ pre.tasks[last.id].done
    /\ \E i \in 1 .. Len(pre.tasks[last.id].dependancy_of) :
          LET p == pre.tasks[last.id].dependancy_of[i]
          IN  ~tasks[p].is_project /\ pre.tasks[p].done /\ ~tasks[p].done

\* C8: from any state reachable through the manager's operations, a second
\* run of update_todo_states right after a first changes no task.
C8_ReconcileIdempotent ==
    LET once == ToDoManager_update_todo_states(tasks, todos)
    IN  ToDoManager_update_todo_states(once, todos) = once

\* a run of update_todo_states that did change a task
C8_Witness ==
    /\ last.op = "update_todo_states"
    /\ tasks # pre.tasks

\* C9: after every completed manager operation every project p of the
\* collection has p.done = (every task in p.dependencies is done).
C9_ProjectDoneSynchronized ==
    \A p \in Range(todos) :
        tasks[p].is_project => (tasks[p].done <=> ToDo_is_unblocked(tasks, p))

\* C14: after ToDoManager.mark_undone(t) returns, t.done is false,
\* t.completed_at and t.actual_time are empty and t.in_progress is false,
\* whatever the state of t was before.
C14_MarkUndoneClearsAll ==
    Returned("mark_undone")
        => /\ ~tasks[last.id].done
           /\ tasks[last.id].completed_at = None
           /\ tasks[last.id].actual_time = None
           /\ ~tasks[last.id].in_progress

\* C15: after ToDoManager.set_in_progress(t) returns, t is not done and is
\* in progress, and every dependant of t that was done before the call is
\* not done.
C15_SetInProgress ==
    Returned("set_in_progress")
        => /\ ~tasks[last.id].done
           /\ tasks[last.id].in_progress
           /\ \A i \in 1 .. Len(pre.tasks[last.id].dependancy_of) :
                 LET p == pre.tasks[last.id].dependancy_of[i]
                 IN  pre.tasks[p].done => ~tasks[p].done

\* set_in_progress on a done task reopened it and its done dependant
C15_Witness ==
    /\ Returned("set_in_progress")
    /\ pre.tasks[last.id].done
    /\ tasks[last.id].in_progress
    /\ \E i \in 1 .. Len(pre.tasks[last.id].dependancy_of) :
          LET p == pre.tasks[last.id].dependancy_of[i]
          IN  pre.tasks[p].done /\ ~tasks[p].done

\* C16: after remove_todo(P) returns true for a project P, neither P nor any
\* task that was a direct or transitive dependency of P is in the collection.
C16_RemoveProjectRemovesSubtree ==
    (last.op = "remove_todo" /\ last.ret /\ pre.tasks[last.task].is_project)
        => \A d \in {last.task}
                     \cup Descendants(pre.tasks,
                                      Range(pre.tasks[last.task].dependencies)) :
              ~InSeq(d, todos)

(* ==================== properties: lookup by title ===================== *)

\* the tasks of the collection that carry the title
Matching(h, col, title) == {t \in Range(col) : h[t].title = title}

\* the last operation looked its task up by title
ByTitle ==
    last.op \in {"get_todo", "mark_done", "mark_undone", "set_in_progress",
                 "update_todo", "add_dependancy_of"}

\* C17 as stated: get_todo, mark_done, mark_undone, set_in_progress,
\* update_todo and add_dependancy_of, called with a title and no id, report an
\* error and change nothing when no task of the collection has the title, and
\* report an error instead of acting when more than one task has it.
C17_MissingOrAmbiguousTitleIsError ==
    ByTitle
        => LET m == Matching(pre.tasks, pre.todos, last.title)
           IN  (m = {} \/ Cardinality(m) > 1)
                  => /\ last.err = "ValueError"
                     /\ tasks = pre.tasks
                     /\ todos = pre.todos

\* C17, amended: all six report an error and change nothing when no task has
\* the title; when several tasks have it, update_todo and add_dependancy_of
\* report an error and change nothing, get_todo returns all of them, and
\* mark_done, mark_undone and set_in_progress act on every one of them.
C17_TitleLookup ==
    ByTitle
        => LET m == Matching(pre.tasks, pre.todos, last.title)
           IN  /\ m = {} => /\ last.err = "ValueError"
                            /\ tasks = pre.tasks
                            /\ todos = pre.todos
               /\ (Cardinality(m) > 1
                     /\ last.op \in {"update_todo", "add_dependancy_of"})
                    => /\ last.err = "ValueError"
                       /\ tasks = pre.tasks
                       /\ todos = pre.todos
               /\ (Cardinality(m) > 1 /\ last.op = "get_todo")
                    => /\ last.err = "ok"
                       /\ Range(last.ret) = m
                       /\ Len(last.ret) = Cardinality(m)
               /\ (Cardinality(m) > 1 /\ last.op = "mark_done")
                    => /\ last.err = "ok"
                       /\ \A t \in m : ToDo_is_unblocked(pre.tasks, t)
                                           => tasks[t].done
               /\ (Cardinality(m) > 1 /\ last.op = "mark_undone")
                    => /\ last.err = "ok"
                       /\ \A t \in m : ~tasks[t].done
               /\ (Cardinality(m) > 1 /\ last.op = "set_in_progress")
                    => /\ last.err = "ok"
                       /\ \A t \in m : ~tasks[t].done /\ tasks[t].in_progress

\* mark_done by a title that two open tasks share completed both of them
C17_Witness ==
    /\ last.op = "mark_done"
    /\ last.err = "ok"
    /\ LET m == Matching(pre.tasks, pre.todos, last.title)
       IN  /\ Cardinality(m) = 2
           /\ \A t \in m : ~pre.tasks[t].done /\ tasks[t].done

(* ====================== properties: persistence ======================= *)

\* the edges of the collection are mutual inverses and stay inside it
ClosedMutualInverse(h, col) ==
    \A t \in Range(col) :
        /\ Range(h[t].dependencies) \cup Range(h[t].dependancy_of) \subseteq Range(col)
        /\ \A u \in Range(col) :
              InSeq(u, h[t].dependencies) <=> InSeq(t, h[u].dependancy_of)

\* C19: for a collection whose edges are mutual inverses and point only to
\* tasks of the collection, to_dict followed by from_dict or load yields
\* tasks with the same identifiers, the same done flags and the same
\* dependencies and dependancy_of, again mutual inverses, and load ends in a
\* state that update_todo_states leaves unchanged.
C19_RoundTripPreserves ==
    (last.op \in {"from_dict", "load"} /\ ClosedMutualInverse(pre.tasks, pre.todos))
        => /\ todos = pre.todos
           /\ \A t \in Range(todos) :
                 /\ tasks[t].done = pre.tasks[t].done
                 /\ tasks[t].dependencies = pre.tasks[t].dependencies
                 /\ tasks[t].dependancy_of = pre.tasks[t].dependancy_of
           /\ ClosedMutualInverse(tasks, todos)
           /\ last.op = "load"
                 => ToDoManager_update_todo_states(tasks, todos) = tasks

(* =================== properties: priority escalation ================== *)

\* C20: under repeated automatic_priority_update calls while today advances
\* day by day, each of the three escalation thresholds raises a task's
\* priority at most once, so a task is escalated at most three times in
\* total, and its priority rank never leaves the range of the enumeration.
C20_EscalationBounded ==
    \A t \in Ids :
        /\ \A k \in 1 .. 3 : last.fired[t][k] <= 1
        /\ last.fired[t][1] + last.fired[t][2] + last.fired[t][3] <= 3
        /\ tasks[t].priority \in Priority_blocking .. Priority_parked

(* =================== properties: the generator ======================== *)

\* C10: a generate_due_tasks call right after another, with the same or an
\* earlier today, returns an empty list, adds no task to the collection and
\* leaves generated_todos and last_generated_date unchanged.
C10_GenerateTwiceNoDuplicates ==
    (last.op = "generate_due_tasks" /\ last.previous # None
        /\ last.today <= last.previous[1])
        => /\ last.ret = << >>
           /\ todos = pre.todos
           /\ tasks = pre.tasks
           /\ bp.generated_todos = pre.bp.generated_todos
           /\ bp.last_generated_date = pre.bp.last_generated_date

\* the second of two calls, made with an earlier today, on a blueprint whose
\* first call generated occurrences with subtasks
C10_Witness ==
    /\ last.op = "generate_due_tasks"
    /\ last.previous # None
    /\ last.today < last.previous[1]
    /\ bp.start_date <= last.today
    /\ Len(bp.generated_todos) >= 2
    /\ Len(todos) > Len(bp.generated_todos)
    /\ last.ret = << >>

\* C18: generate_due_tasks(today) on a blueprint that is not active, or with
\* today before start_date, returns an empty list and changes neither the
\* collection nor generated_todos nor last_generated_date.
C18_InactiveOrEarlyIsNoOp ==
    (last.op = "generate_due_tasks"
        /\ (~pre.bp.active \/ last.today < pre.bp.start_date))
        => /\ last.ret = << >>
           /\ todos = pre.todos
           /\ tasks = pre.tasks
           /\ bp.generated_todos = pre.bp.generated_todos
           /\ bp.last_generated_date = pre.bp.last_generated_date

\* a call with today before start_date on an active blueprint that has
\* generated occurrences before
C18_Witness ==
    /\ last.op = "generate_due_tasks"
    /\ pre.bp.active
    /\ last.today < pre.bp.start_date
    /\ pre.bp.generated_todos # << >>
    /\ last.ret = << >>

\* the first generate_due_tasks call on the blueprint with interval_days = 7
\* and start_date = day 0, made with today = day 20
WeeklyFirstCallOnDay20 ==
    /\ last.op = "generate_due_tasks"
    /\ pre.bp.active
    /\ pre.bp.interval_days = 7
    /\ pre.bp.start_date = 0
    /\ pre.bp.last_generated_date = None
    /\ pre.bp.generated_todos = << >>
    /\ last.today = 20

\* C11 as stated: a blueprint with interval_days = 7 and start_date = day 0
\* and no cursor produces exactly 2 occurrences in a single
\* generate_due_tasks call with today = day 20.
C11_WeeklyTwoOccurrences ==
    WeeklyFirstCallOnDay20 => Len(last.ret) = 2

\* C11, amended: that call produces exactly 3 occurrences, for day 0, day 7
\* and day 14 (deadlines day 7, 14 and 21), and leaves the cursor on day 14.
C11_WeeklyThreeOccurrences ==
    WeeklyFirstCallOnDay20
        => /\ Len(last.ret) = 3
           /\ bp.generated_todos = last.ret
           /\ \A i \in 1 .. Len(last.ret) : tasks[last.ret[i]].deadline = 7 * i
           /\ bp.last_generated_date = Some(14)

\* the call of the scenario, on a blueprint with a template subtask
C11_Witness ==
    /\ WeeklyFirstCallOnDay20
    /\ bp.template_subtasks # << >>
    /\ last.ret # << >>

(* ==================== properties: reconciliation ====================== *)

\* no task of the collection reaches itself along dependencies
AcyclicIn(h, col) == \A t \in Range(col) : ~Reaches(h, t, t)

\* the done/unblocked invariant: no task is done with an open dependency and
\* every project whose dependencies are all done is done
Restored(h, col) ==
    \A t \in Range(col) :
        /\ h[t].done => \A d \in Range(h[t].dependencies) : h[d].done
        /\ (h[t].is_project /\ \A d \in Range(h[t].dependencies) : h[d].done)
              => h[t].done

\* C21: one run of update_todo_states on a collection whose edges are mutual
\* inverses, acyclic and point only to tasks of the collection leaves no task
\* done with a dependency that is not done, and every project whose
\* dependencies are all done is done.
C21_SinglePassRestores ==
    (ClosedMutualInverse(tasks, todos) /\ AcyclicIn(tasks, todos))
        => Restored(ToDoManager_update_todo_states(tasks, todos), todos)

\* a run of update_todo_states on a collection of three linked tasks that
\* violated the invariant and satisfies it afterwards
C21_Witness ==
    /\ last.op = "update_todo_states"
    /\ ClosedMutualInverse(pre.tasks, pre.todos)
    /\ Len(todos) = 3
    /\ \E t \in Range(todos) : Len(tasks[t].dependencies) + Len(tasks[t].dependancy_of) = 2
    /\ ~Restored(pre.tasks, pre.todos)
    /\ Restored(tasks, todos)

\* C22: the state left by update_todo_states does not depend on the order of
\* the collection list: the pass run on the same tasks in any other order
\* ends with the same done value on every task.
C22_OrderIndependent ==
    last.op = "update_todo_states"
        => \A order \in Orderings :
              \A t \in Ids :
                 ToDoManager_update_todo_states(pre.tasks, order)[t].done
                    = tasks[t].done

\* C23: every state-changing manager operation finishes with the
\* reconciliation pass; in particular, when add_dependancy_of(child, parent)
\* succeeds with child not done and parent done, parent is not done when the
\* operation returns.
C23_AddDependancyOfReconciles ==
    (Returned("add_dependancy_of")
        /\ ~pre.tasks[last.todo].done
        /\ pre.tasks[last.id].done)
        => ~tasks[last.id].done

\* C24: a non-project task that was not done is done after an operation only
\* if the operation was a mark_done call naming that task: the completion
\* cascade of another task's mark_done, update_todo_states and the passes run
\* by add_todo and remove_todo never complete it.
C24_PlainTaskDoneOnlyByCommand ==
    \A t \in DOMAIN tasks :
        (t \in DOMAIN pre.tasks /\ ~tasks[t].is_project
            /\ ~pre.tasks[t].done /\ tasks[t].done)
          => (last.op = "mark_done" /\ last.id = t)

\* a mark_done call completed its plain task and, by the cascade, a project
\* above it, next to a plain dependant of the task that stays not done
C24_Witness ==
    /\ Returned("mark_done")
    /\ ~tasks[last.id].is_project
    /\ ~pre.tasks[last.id].done /\ tasks[last.id].done
    /\ \E P \in Ids : tasks[P].is_project /\ P # last.id
                        /\ ~pre.tasks[P].done /\ tasks[P].done
    /\ \E t \in Ids : ~tasks[t].is_project /\ t # last.id /\ ~tasks[t].done


(* ------------------- properties: repeated commands -------------------- *)

\* C25: add_dependency(parent, child) with child already in
\* parent.dependencies succeeds without raising and leaves
\* parent.dependencies and child.dependancy_of unchanged.
C25_ExistingEdgeIsNoOp ==
    (last.op = "add_dependency" /\ HasEdge(pre.tasks, last.self, last.task))
        => /\ last.err = "ok"
           /\ tasks[last.self].dependencies = pre.tasks[last.self].dependencies
           /\ tasks[last.task].dependancy_of = pre.tasks[last.task].dependancy_of

\* C26: ToDoManager.mark_done on a task that is already done keeps its
\* completed_at and actual_time and changes the state of no other task.
C26_MarkDoneOnDoneIsNoOp ==
    (Returned("mark_done") /\ pre.tasks[last.id].done) => tasks = pre.tasks

(* --------------------- properties: summed time ------------------------ *)

\* the recorded time of a task, an absent one counting as 0
TimeOf(h, t) == IF h[t].actual_time = None THEN 0 ELSE h[t].actual_time[1]

\* the sum of the recorded times of a set of tasks
RECURSIVE SumOfTimes(_, _)
SumOfTimes(h, S) ==
    IF S = {} THEN 0
    ELSE LET t == CHOOSE x \in S : TRUE
         IN  TimeOf(h, t) + SumOfTimes(h, S \ {t})

\* the projects that the cascade of the last mark_done completed
CascadeCompleted ==
    {p \in DOMAIN tasks : /\ p # last.id
                          /\ tasks[p].is_project
                          /\ ~pre.tasks[p].done
                          /\ tasks[p].done}

\* C27: a project p that the cascade of mark_done marks done gets as
\* actual_time the sum of the actual_time of all its dependencies, an absent
\* one counting as 0; p itself enters the sum of its own project parent
\* with that value.
C27_CascadeSumsActualTime ==
    Returned("mark_done")
        => \A p \in CascadeCompleted :
              tasks[p].actual_time
                  = Some(SumOfTimes(tasks, Range(tasks[p].dependencies)))

\* a cascade over two levels carrying a positive time: the named task
\* completes its project parent, which completes its own project parent
C27_Witness ==
    /\ Returned("mark_done")
    /\ \E p, g \in CascadeCompleted :
          /\ HasEdge(tasks, p, last.id)
          /\ HasEdge(tasks, g, p)
          /\ tasks[last.id].actual_time # None
          /\ tasks[last.id].actual_time[1] > 0
          /\ tasks[g].actual_time = tasks[p].actual_time
          /\ tasks[p].actual_time = tasks[last.id].actual_time

(* ------------------ properties: catching up ---------------------------- *)

\* the dates start_date + k * interval_days, k = 0, 1, 2, ..., up to today
DueDates(b, today) ==
    {d \in b.start_date .. today : (d - b.start_date) % b.interval_days = 0}

\* the last call returned exactly one occurrence for each due date of the
\* blueprint as it was before the call, in increasing date order, the
\* occurrence for date d carrying the deadline d + interval_days
OneOccurrencePerDueDate ==
    /\ Len(last.ret) = Cardinality(DueDates(pre.bp, last.today))
    /\ \A d \in DueDates(pre.bp, last.today) :
          \E i \in 1 .. Len(last.ret) :
             tasks[last.ret[i]].deadline = d + pre.bp.interval_days
    /\ \A i, j \in 1 .. Len(last.ret) :
          i < j => tasks[last.ret[i]].deadline < tasks[last.ret[j]].deadline

C29_IncrementalEqualsOneShot ==
    last.op = "generate_due_tasks"
        => LET r == AutomaticToDo_generate_due_tasks(
                        last.run.tasks, last.run.todos, last.run.bp, last.today)
           IN  /\ r.ret = last.produced
               /\ r.heap = tasks
               /\ r.todos = todos
               /\ r.bp = bp

\* a run of calls with rising today values in which an earlier call and the
\* last call each produced occurrences with subtasks, the last call two
C29_Witness ==
    /\ last.op = "generate_due_tasks"
    /\ last.previous # None
    /\ last.previous[1] < last.today
    /\ Len(last.ret) = 2
    /\ Len(last.produced) > Len(last.ret)
    /\ bp.template_subtasks # << >>
    /\ bp.interval_days > 1

\* C30: over any generate_due_tasks calls with arbitrary today values,
\* last_generated_date never moves to an earlier date; a call that produces
\* no occurrence leaves it untouched; a call that produces some sets it to
\* the date of the last occurrence produced (its deadline less one interval).
C30_CursorMonotone ==
    /\ pre.bp.last_generated_date # None
          => /\ bp.last_generated_date # None
             /\ bp.last_generated_date[1] >= pre.bp.last_generated_date[1]
    /\ last.op = "generate_due_tasks"
          => IF last.ret = << >>
             THEN bp.last_generated_date = pre.bp.last_generated_date
             ELSE bp.last_generated_date
                      = Some(tasks[last.ret[Len(last.ret)]].deadline
                                 - bp.interval_days)

\* a call with a today that lies between two due dates, which moves a set
\* cursor forward to the last due date before today
C30_Witness ==
    /\ last.op = "generate_due_tasks"
    /\ last.ret # << >>
    /\ pre.bp.last_generated_date # None
    /\ bp.last_generated_date[1] > pre.bp.last_generated_date[1]
    /\ bp.last_generated_date[1] < last.today

(* ------------------ properties: generated trees ----------------------- *)

\* C31: for every occurrence generate_due_tasks produces, each (subtask
\* template, offset) pair yields exactly one new task, distinct from the
\* template (which stays as it was), without dependencies of its own, with
\* the deadline of the parent plus the offset, present in the collection,
\* in parent.dependencies and with dependancy_of exactly the parent.
C31_SubtasksClonedAndLinked ==
    last.op = "generate_due_tasks"
        => /\ bp.template_subtasks = pre.bp.template_subtasks
           /\ \A i \in 1 .. Len(last.ret) :
                 LET parent == last.ret[i]
                     deps   == tasks[parent].dependencies
                 IN  /\ Len(deps) = Len(bp.template_subtasks)
                     /\ \A k, m \in 1 .. Len(deps) : k # m => deps[k] # deps[m]
                     /\ \A k \in 1 .. Len(deps) :
                           /\ deps[k] \notin DOMAIN pre.tasks
                           /\ deps[k] # parent
                           /\ tasks[deps[k]].dependencies = << >>
                           /\ tasks[deps[k]].deadline
                                 = tasks[parent].deadline
                                     + bp.template_subtasks[k].offset_days
                           /\ InSeq(deps[k], todos)
                           /\ tasks[deps[k]].dependancy_of = << parent >>
                     /\ \A c \in DOMAIN tasks :
                           InSeq(parent, tasks[c].dependancy_of) => InSeq(c, deps)

\* a call that produced two occurrences from a blueprint with two subtask
\* templates, into a collection that already held an earlier occurrence
C31_Witness ==
    /\ last.op = "generate_due_tasks"
    /\ Len(last.ret) = 2
    /\ Len(bp.template_subtasks) = 2
    /\ pre.todos # << >>
    /\ \A i \in 1 .. 2 : Len(tasks[last.ret[i]].dependencies) = 2

(* ------------------ properties: traversals ----------------------------- *)

\* the list holds no task twice
NoRepeat(seq) == \A i, j \in 1 .. Len(seq) : i # j => seq[i] # seq[j]

\* no dependencies or dependancy_of list differs between the two heaps
SameEdges(h1, h2) ==
    \A t \in DOMAIN h1 : /\ h1[t].dependencies = h2[t].dependencies
                          /\ h1[t].dependancy_of = h2[t].dependancy_of

\* C32: ToDoManager.mark_done, ToDoManager.mark_undone, ToDo.depends_on and
\* ToDo.remove_all_dependencies return without raising on every graph,
\* cyclic ones included: the cascades process each task at most once,
\* beginning with the named one, and touch no edge; depends_on answers
\* reachability; remove_all_dependencies empties the dependencies of the
\* task and of everything reachable from it and reports what is reachable.
C32_TraversalsTerminate ==
    /\ last.op \in {"mark_done", "mark_undone"}
          => /\ last.err = "ok"
             /\ NoRepeat(last.visited)
             /\ last.visited # << >> /\ last.visited[1] = last.id
             /\ SameEdges(tasks, pre.tasks)
    /\ last.op = "depends_on"
          => last.ret = Reaches(pre.tasks, last.self, last.other)
    /\ last.op = "remove_all_dependencies"
          => /\ last.err = "ok"
             /\ last.removed
                   = Descendants(pre.tasks, Range(pre.tasks[last.self].dependencies))
             /\ \A t \in {last.self} \cup last.removed :
                   tasks[t].dependencies = << >>

\* mark_undone on a task of a three-task cycle, all in progress: the
\* cascade went round the cycle once and stopped at the task it began with
C32_Witness ==
    /\ last.op = "mark_undone"
    /\ Len(last.visited) = 3
    /\ Reaches(tasks, last.id, last.id)
    /\ \A t \in Ids : pre.tasks[t].in_progress

(* ------------------ properties: escalation days ------------------------ *)

\* C33: automatic_priority_update raises the priority of a task on the day
\* its deadline is exactly 3 days ahead of today, on the day it is exactly
\* 1 day ahead, and on the day it is exactly 1 day overdue, and on no other
\* day (a raise is a pass through update_priority(1), counted by updated).
C33_EscalatesOnThresholdDays ==
    last.op = "automatic_priority_update"
        => \A t \in Ids :
              (tasks[t].updated > pre.tasks[t].updated)
                  <=> (tasks[t].deadline - last.today \in {3, 1, 0 - 1})

(* ------------------ properties: removal -------------------------------- *)

\* C34: after ToDoManager.remove_todo(t) has returned true, no task that
\* remains in the collection holds t in its dependencies or in its
\* dependancy_of.
C34_RemovedTaskLeavesNoEdge ==
    (last.op = "remove_todo" /\ last.ret)
        => \A u \in Range(todos) :
              /\ ~InSeq(last.task, tasks[u].dependencies)
              /\ ~InSeq(last.task, tasks[u].dependancy_of)

(* ------------------ properties: frame of the cascades ------------------ *)

\* the tasks other than `t` that do not depend on `t`, directly or not
Bystanders(h, t) == {u \in DOMAIN h : u # t /\ ~Reaches(h, u, t)}

\* C35: ToDoManager.mark_done(t) and ToDoManager.mark_undone(t) leave
\* unchanged every dependencies and dependancy_of list, the membership of
\* the collection, and done, in_progress, completed_at and actual_time of
\* every task that is neither t nor a transitive dependant of t.
C35_CascadeFrame ==
    last.op \in {"mark_done", "mark_undone"}
        => /\ SameEdges(tasks, pre.tasks)
           /\ todos = pre.todos
           /\ \A u \in Bystanders(pre.tasks, last.id) :
                 /\ tasks[u].done = pre.tasks[u].done
                 /\ tasks[u].in_progress = pre.tasks[u].in_progress
                 /\ tasks[u].completed_at = pre.tasks[u].completed_at
                 /\ tasks[u].actual_time = pre.tasks[u].actual_time

\* mark_undone of a done task that reopened its done dependant while the
\* done dependency below it kept its completion data
C35_Witness ==
    /\ Returned("mark_undone")
    /\ pre.tasks[last.id].done /\ ~tasks[last.id].done
    /\ \E p, c \in DOMAIN tasks :
          /\ HasEdge(tasks, p, last.id)
          /\ pre.tasks[p].done /\ ~tasks[p].done
          /\ HasEdge(tasks, last.id, c)
          /\ tasks[c].done
          /\ tasks[c].completed_at # None
          /\ ~Reaches(tasks, c, last.id)

(* ------------------ properties: lifecycle flags ------------------------ *)

\* C36: in every state reached from freshly created tasks through add_todo,
\* mark_done, mark_undone, set_in_progress, update_todo_states and
\* generate_due_tasks, no task has done and in_progress both true.
C36_NeverDoneAndInProgress ==
    \A t \in DOMAIN tasks : ~(tasks[t].done /\ tasks[t].in_progress)

\* mark_done has completed a task that was in progress, and by cascade its
\* project parent that was in progress too
C36_Witness ==
    /\ Returned("mark_done")
    /\ pre.tasks[last.id].in_progress
    /\ tasks[last.id].done
    /\ \E p \in DOMAIN tasks :
          /\ HasEdge(tasks, p, last.id)
          /\ pre.tasks[p].in_progress
          /\ tasks[p].done

(* ------------------ properties: status update -------------------------- *)

\* C37: after ToDoManager.automatic_status_update has returned, no task in
\* the collection is done or in progress while one of its dependencies is
\* not done.
C37_StatusUpdateReopensBlocked ==
    last.op = "automatic_status_update"
        => \A t \in Range(todos) :
              (tasks[t].done \/ tasks[t].in_progress) => ToDo_is_unblocked(tasks, t)

(* ------------------ properties: empty projects ------------------------- *)

\* C38: ToDoManager.add_todo of a project that has no dependencies leaves
\* that project done when add_todo returns.
C38_EmptyProjectDoneAfterAdd ==
    (last.op = "add_todo" /\ pre.tasks[last.task].is_project
        /\ pre.tasks[last.task].dependencies = << >>)
        => tasks[last.task].done

(* ------------------ properties: the generator loop --------------------- *)

\* an iteration of the loop of generate_due_tasks has just run
Iterated ==
    last.op = "generate_due_tasks" /\ last.pc = "loop" /\ last.new_tasks # << >>

\* C39: generate_due_tasks returns after finitely many loop iterations for
\* every active blueprint and every today, whatever interval_days is: each
\* iteration brings the loop test closer to failing, that is, it moves
\* current_date + interval_days towards the day after today.
C39_EveryIterationAdvances ==
    Iterated => (last.today - (last.current_date + bp.interval_days))
                    < (last.today - (last.previous_date + bp.interval_days))

\* C40: when the blueprint has an end_date, generate_due_tasks produces no
\* occurrence whose date lies after end_date.
C40_NoOccurrenceAfterEndDate ==
    (Iterated /\ bp.end_date # None) => last.current_date <= bp.end_date[1]

=============================================================================
